---- MODULE Spec2Model ----
(***************************************************************************)
(* A model of figipy: the range helpers of figipy/range.py, the filter     *)
(* dataclass OpenFIGIProperties and the client OpenFIGIApi of              *)
(* figipy/core.py.                                                         *)
(*                                                                         *)
(* Python values are tagged records, so that None, 0, False and "" stay    *)
(* distinct values that are all falsy, as they are in Python.              *)
(***************************************************************************)
EXTENDS Integers, Sequences, FiniteSets, TLC

VARIABLES
    data_range,      \* range.py: the argument handed to a range helper
    range_call,      \* range.py: the helper that was called ("idle" before)
    range_result,    \* range.py: what the call returned or raised
    kwargs,          \* core.py: the keyword arguments of OpenFIGIProperties(...)
    properties,      \* core.py: the constructed OpenFIGIProperties, or NoObject
    filter_result,   \* core.py: result of properties.as_filter(), or NoObject
    environ,         \* core.py: the class attributes API_* read from os.environ
    ctor_args,       \* core.py: the arguments of OpenFIGIApi(...)
    api,             \* core.py: the OpenFIGIApi instance, or NoObject
    op,              \* core.py: the client operation in progress
    pc,              \* core.py: position inside that operation
    request_data,    \* core.py: the `data` argument of _perform_pagination_request
    response,        \* core.py: the local `response` of the pagination loop
    part_index,      \* core.py: position of the `for part in response["data"]` loop
    requests_log,    \* the HTTP requests issued through session.request
    responses_log,   \* the values _perform_request returned to the pagination loop
    status_log,      \* the status codes of the responses session.request returned
    yielded,         \* the objects the search generator has produced
    outcome          \* how the client operation ended

range_vars == <<data_range, range_call, range_result>>
filter_vars == <<kwargs, properties, filter_result>>
client_vars == <<environ, ctor_args, api, op, pc, request_data, response,
                 part_index, requests_log, responses_log, status_log, yielded,
                 outcome>>
vars == <<range_vars, filter_vars, client_vars>>

-----------------------------------------------------------------------------
(* Python values *)

None == [t |-> "none"]
PyInt(n) == [t |-> "int", v |-> n]
PyBool(b) == [t |-> "bool", v |-> b]
PyStr(s) == [t |-> "str", v |-> s]
\* a datetime.date, held as its proleptic Gregorian ordinal (date.toordinal())
PyDate(o) == [t |-> "date", v |-> o]
PyTuple(s) == [t |-> "tuple", v |-> s]
PyList(s) == [t |-> "list", v |-> s]
\* a dict with string keys: v is a function from its key set
PyDict(f) == [t |-> "dict", v |-> f]
\* a raised exception, as the result of a call
Raised(kind) == [t |-> "raise", v |-> kind]

\* the marker of "no object here" for model variables (not a Python value)
NoObject == [t |-> "absent"]

\* Python truth value testing, as used by `or`, `if x:`, any() and all()
Truthy(x) ==
    CASE x.t = "none" -> FALSE
      [] x.t = "int" -> x.v # 0
      [] x.t = "bool" -> x.v
      [] x.t = "str" -> x.v # ""
      [] x.t = "date" -> TRUE
      [] x.t = "tuple" -> Len(x.v) > 0
      [] x.t = "list" -> Len(x.v) > 0
      [] x.t = "dict" -> DOMAIN x.v # {}

\* Python `a or b`
PyOr(a, b) == IF Truthy(a) THEN a ELSE b

\* builtins any() and all() over a tuple
PyAny(tup) == \E i \in 1..Len(tup.v) : Truthy(tup.v[i])
PyAll(tup) == \A i \in 1..Len(tup.v) : Truthy(tup.v[i])

-----------------------------------------------------------------------------
(* datetime.date: ordinals, calendar dates and strftime *)

IsLeap(y) == (y % 4 = 0) /\ ((y % 100 # 0) \/ (y % 400 = 0))

DaysInMonth(y, m) ==
    CASE m \in {1, 3, 5, 7, 8, 10, 12} -> 31
      [] m \in {4, 6, 9, 11} -> 30
      [] m = 2 -> IF IsLeap(y) THEN 29 ELSE 28

RECURSIVE DaysBeforeMonth(_, _)
DaysBeforeMonth(y, m) ==
    IF m = 1 THEN 0 ELSE DaysBeforeMonth(y, m - 1) + DaysInMonth(y, m - 1)

DaysBeforeYear(y) ==
    (y - 1) * 365 + ((y - 1) \div 4) - ((y - 1) \div 100) + ((y - 1) \div 400)

\* datetime.date(y, m, d).toordinal()
Ymd2Ord(y, m, d) == DaysBeforeYear(y) + DaysBeforeMonth(y, m) + d

\* datetime.date.fromordinal(o) as <<year, month, day>>
Ord2Ymd(o) ==
    LET y == CHOOSE yy \in ((o \div 366) .. ((o \div 365) + 1)) :
                 DaysBeforeYear(yy) < o /\ o <= DaysBeforeYear(yy + 1)
        n == o - DaysBeforeYear(y)
        m == CHOOSE mm \in 1..12 :
                 DaysBeforeMonth(y, mm) < n
                 /\ n <= DaysBeforeMonth(y, mm) + DaysInMonth(y, mm)
    IN <<y, m, n - DaysBeforeMonth(y, m)>>

Digit(n) == <<"0", "1", "2", "3", "4", "5", "6", "7", "8", "9">>[n + 1]

\* date.strftime(DATE_FORMAT) with DATE_FORMAT = "%Y-%m-%d": the text as a
\* sequence of characters
strftime(o) ==
    LET ymd == Ord2Ymd(o)
        y == ymd[1]
        m == ymd[2]
        d == ymd[3]
    IN PyStr(<<Digit(y \div 1000), Digit((y \div 100) % 10),
               Digit((y \div 10) % 10), Digit(y % 10), "-",
               Digit(m \div 10), Digit(m % 10), "-",
               Digit(d \div 10), Digit(d % 10)>>)

-----------------------------------------------------------------------------
(* figipy/range.py *)

\* a year_offset of 365 days instead of 52 weeks
year_offset_365_days == 52 * 7 + 1

\* range.py:21, datetime.timedelta(weeks=52) in days
year_offset == 52 * 7

convert_date_range_to_string(date_range) ==
    IF date_range = None THEN None
    ELSE LET first == date_range.v[1]
             second == date_range.v[2]
         IN IF ~Truthy(first) /\ ~Truthy(second)
            THEN Raised("TypeError")   \* None - timedelta
            ELSE LET first2 == IF Truthy(first) THEN first
                               ELSE PyDate(second.v - year_offset)
                     second2 == IF Truthy(second) THEN second
                                ELSE PyDate(first.v + year_offset)
                 IN PyList(<<strftime(first2.v), strftime(second2.v)>>)

convert_number_range_to_string(number_range) ==
    IF number_range = None THEN None
    ELSE LET first == number_range.v[1]
             second == number_range.v[2]
         IN PyList(<<PyOr(first, None), PyOr(second, None)>>)

assert_data_range_is_valid(data_range_) ==
    IF data_range_ = None THEN Raised("TypeError")   \* len(None)
    ELSE IF Len(data_range_.v) # 2 THEN Raised("AssertionError")
    ELSE IF ~PyAny(data_range_) THEN Raised("AssertionError")
    ELSE IF PyAll(data_range_)
         THEN LET start == data_range_.v[1]
                  end == data_range_.v[2]
              IN IF end.v >= start.v THEN None ELSE Raised("AssertionError")
         ELSE None

-----------------------------------------------------------------------------
(* figipy/core.py: OpenFIGIProperties *)

EmptyDict == PyDict([k \in {} |-> None])
\* `key in d`
DictHas(d, key) == key \in DOMAIN d.v
\* d.get(key)
DictGet(d, key) == IF DictHas(d, key) THEN d.v[key] ELSE None
\* dict(d, key=value)
DictWith(d, key, value) ==
    PyDict([k \in (DOMAIN d.v) \cup {key} |-> IF k = key THEN value ELSE d.v[k]])

Fields ==
    {"exchange_code", "mic_code", "currency", "market_sector_description",
     "security_type", "security_type_2", "include_unlisted_equities",
     "option_type", "strike", "contract_size", "coupon", "expiration",
     "maturity", "state_code"}

\* the dataclass defaults: every field None
OpenFIGIProperties == [f \in Fields |-> None]

\* __post_init__ without the subtype assertion for maturity
__post_init__without_pool_assert(self) ==
    LET expiration_check ==
            IF Truthy(self.expiration)
            THEN IF self.security_type_2 \notin {PyStr("Option"), PyStr("Warrant")}
                 THEN Raised("AssertionError")
                 ELSE assert_data_range_is_valid(self.expiration)
            ELSE None
        maturity_check ==
            IF Truthy(self.maturity)
            THEN assert_data_range_is_valid(self.maturity)
            ELSE None
    IN IF expiration_check # None THEN expiration_check ELSE maturity_check

__post_init__(self) ==
    LET expiration_check ==
            IF Truthy(self.expiration)
            THEN IF self.security_type_2 \notin {PyStr("Option"), PyStr("Warrant")}
                 THEN Raised("AssertionError")
                 ELSE assert_data_range_is_valid(self.expiration)
            ELSE None
        maturity_check ==
            IF Truthy(self.maturity)
            THEN IF self.security_type_2 \notin {PyStr("Pool")}
                 THEN Raised("AssertionError")
                 ELSE assert_data_range_is_valid(self.maturity)
            ELSE None
    IN IF expiration_check # None THEN expiration_check ELSE maturity_check

\* the dict literal of as_filter, before the `is not None` comprehension
FilterTable(self) ==
    [exchCode |-> self.exchange_code,
     micCode |-> self.mic_code,
     currency |-> self.currency,
     marketSecDes |-> self.market_sector_description,
     securityType |-> self.security_type,
     securityType2 |-> self.security_type_2,
     includeUnlistedEquities |-> self.include_unlisted_equities,
     optionType |-> self.option_type,
     strike |-> convert_number_range_to_string(self.strike),
     contractSize |-> convert_number_range_to_string(self.contract_size),
     coupon |-> convert_number_range_to_string(self.coupon),
     expiration |-> convert_date_range_to_string(self.expiration),
     maturity |-> convert_date_range_to_string(self.maturity),
     stateCode |-> self.state_code]

\* the comprehension's condition written as `if value`
KeptKeysIfTruthy(table) == {key \in DOMAIN table : Truthy(table[key])}

\* the comprehension's condition `value is not None`
KeptKeys(table) == {key \in DOMAIN table : table[key] # None}

\* returns the dict, or the exception a range conversion raised
as_filter(self) ==
    LET table == FilterTable(self)
        raised == {key \in DOMAIN table : table[key].t = "raise"}
    IN IF raised # {}
       THEN table[CHOOSE key \in raised : TRUE]
       ELSE PyDict([key \in KeptKeys(table) |-> table[key]])

-----------------------------------------------------------------------------
(* figipy/core.py: OpenFIGIObject *)

\* OpenFIGIObject.from_figi_data: the dataclass instance, its fields ticker
\* and metadata left at their default None
from_figi_data(data) ==
    [figi |-> DictGet(data, "figipy"),
     security_type |-> DictGet(data, "securityType"),
     security_type_2 |-> DictGet(data, "securityType2"),
     market_sector |-> DictGet(data, "marketSecDes"),
     exchange_code |-> DictGet(data, "exchCode"),
     ticker |-> None,
     name |-> DictGet(data, "name"),
     id |-> DictGet(data, "id"),
     share_class_figi |-> DictGet(data, "shareClassFIGI"),
     composite_figi |-> DictGet(data, "compositeFIGI"),
     security_description |-> DictGet(data, "securityDescription"),
     future_or_option_id |-> DictGet(data, "uniqueIDFutOpt"),
     metadata |-> None]

-----------------------------------------------------------------------------
(* figipy/core.py: OpenFIGIApi *)

OPEN_FIGI_DEFAULT_URL == PyStr("https://api.openfigi.com")

\* OpenFIGIApi.__init__: the four settings of the instance
__init__(cls, raise_on_error, api_key, api_url, api_retry_count) ==
    [raise_on_error |-> PyOr(raise_on_error, cls.API_RAISE_ON_ERROR),
     api_retry_count |-> PyOr(api_retry_count, cls.API_RETRY_COUNT),
     api_key |-> PyOr(api_key, cls.API_KEY),
     api_url |-> PyOr(api_url, cls.API_URL)]

\* the retry policy of the session mounted on "https://"
create_session(self) ==
    [total |-> self.api_retry_count, backoff_factor |-> 5,
     status_forcelist |-> {429}]

\* _perform_request, lines 183-193: the request handed to session.request
RequestOf(self, url, method, data) ==
    [method |-> method, url |-> url, data |-> data,
     headers |-> IF Truthy(self.api_key)
                 THEN PyDict([k \in {"Content-Type", "X-OPENFIGI-APIKEY"} |->
                          IF k = "Content-Type" THEN PyStr("application/json")
                          ELSE self.api_key])
                 ELSE PyDict([k \in {"Content-Type"} |->
                          PyStr("application/json")]),
     session |-> create_session(self)]

\* requests.Response.raise_for_status raises HTTPError for 4xx and 5xx
RaisesForStatus(status_code) == 400 <= status_code /\ status_code < 600
\* requests.Response.ok: raise_for_status does not raise
Ok(status_code) == ~RaisesForStatus(status_code)

\* _perform_request without the 413 branch
_perform_request_without_413(self, reply) ==
    IF reply.status_code = 429 /\ Truthy(self.raise_on_error)
    THEN Raised("RateLimitError")
    ELSE IF reply.status_code = 403 /\ Truthy(self.raise_on_error)
    THEN Raised("AuthenticationError")
    ELSE IF Truthy(self.raise_on_error) /\ RaisesForStatus(reply.status_code)
    THEN Raised("HTTPError")
    ELSE IF Ok(reply.status_code) THEN reply.json
    ELSE EmptyDict

\* _perform_request, lines 194-216: what the call returns or raises for the
\* response `reply` of session.request
_perform_request(self, reply) ==
    IF reply.status_code = 429 /\ Truthy(self.raise_on_error)
    THEN Raised("RateLimitError")
    ELSE IF reply.status_code = 413 /\ Truthy(self.raise_on_error)
    THEN Raised("PayloadTooLargeError")
    ELSE IF reply.status_code = 403 /\ Truthy(self.raise_on_error)
    THEN Raised("AuthenticationError")
    ELSE IF Truthy(self.raise_on_error) /\ RaisesForStatus(reply.status_code)
    THEN Raised("HTTPError")
    ELSE IF Ok(reply.status_code) THEN reply.json
    ELSE EmptyDict

\* the `while "data" in response and len(response["data"])` condition
HasData(resp) == DictHas(resp, "data") /\ Len(resp.v["data"].v) > 0

Returned(value) == [t |-> "return", v |-> value]

-----------------------------------------------------------------------------
(* Bounds and input domains *)

\* numeric range bounds are drawn from -NumBound..NumBound
NumBound == 2
\* at most this many keyword arguments are supplied to OpenFIGIProperties
MaxSupplied == 2
\* at most this many items in a page's `data` list
MaxData == 2
\* at most this many HTTP requests in one search
MaxRequests == 2

Numbers == {PyInt(n) : n \in -NumBound..NumBound}

\* the dates of tests/test_range.py and tests/test_core.py, and a leap day
SampleDates ==
    {PyDate(Ymd2Ord(2019, 12, 13)), PyDate(Ymd2Ord(2020, 2, 29)),
     PyDate(Ymd2Ord(2020, 11, 12)), PyDate(Ymd2Ord(2020, 12, 11)),
     PyDate(Ymd2Ord(2020, 12, 12))}

PairsOver(values) ==
    {PyTuple(<<a, b>>) : a \in values \cup {None}, b \in values \cup {None}}

RangeInputs == {None} \cup PairsOver(Numbers) \cup PairsOver(SampleDates)

IsNumberRange(r) ==
    IF r = None THEN TRUE
    ELSE \A i \in 1..Len(r.v) : r.v[i].t \in {"none", "int"}
IsDateRange(r) ==
    IF r = None THEN TRUE
    ELSE \A i \in 1..Len(r.v) : r.v[i].t \in {"none", "date"}

\* the values a keyword argument of OpenFIGIProperties is drawn from
FieldValues(f) ==
    CASE f = "exchange_code" -> {PyStr("NYSE")}
      [] f = "mic_code" -> {PyStr("A2XX")}
      [] f = "currency" -> {PyStr("USD")}
      [] f = "market_sector_description" -> {PyStr("Equity")}
      [] f = "security_type" -> {PyStr("Financial index option.")}
      [] f = "security_type_2" ->
            {PyStr("Option"), PyStr("Warrant"), PyStr("Pool"),
             PyStr("Common Stock")}
      [] f = "include_unlisted_equities" -> {PyBool(TRUE), PyBool(FALSE)}
      [] f = "option_type" -> {PyStr("Call")}
      [] f \in {"strike", "contract_size", "coupon"} ->
            PairsOver({PyInt(0), PyInt(2), PyInt(3)})
      [] f \in {"expiration", "maturity"} ->
            PairsOver({PyDate(Ymd2Ord(2020, 11, 12)),
                       PyDate(Ymd2Ord(2020, 12, 11))})
      [] f = "state_code" -> {PyStr("NY")}

\* the fields in their order of declaration
FieldSeq ==
    <<"exchange_code", "mic_code", "currency", "market_sector_description",
      "security_type", "security_type_2", "include_unlisted_equities",
      "option_type", "strike", "contract_size", "coupon", "expiration",
      "maturity", "state_code">>

\* the keyword-argument sets that supply at most n of the fields from the
\* i-th on
RECURSIVE KwargsFrom(_, _)
KwargsFrom(i, n) ==
    IF i > Len(FieldSeq) \/ n = 0 THEN {OpenFIGIProperties}
    ELSE KwargsFrom(i + 1, n)
         \cup {[kw EXCEPT ![FieldSeq[i]] = v] :
                  kw \in KwargsFrom(i + 1, n - 1), v \in FieldValues(FieldSeq[i])}

\* the keyword-argument sets that supply at most n fields
KwargsUpTo(n) == KwargsFrom(1, n)

Supplied(kw) == {f \in Fields : kw[f] # None}

\* the class attributes when no OPEN_FIGI_* variable is set (core.py:129-132)
DefaultEnviron ==
    [API_KEY |-> None, API_URL |-> OPEN_FIGI_DEFAULT_URL,
     API_RAISE_ON_ERROR |-> PyBool(FALSE), API_RETRY_COUNT |-> PyInt(2)]

Environs ==
    [API_KEY : {None, PyStr("env-key")},
     API_URL : {OPEN_FIGI_DEFAULT_URL},
     API_RAISE_ON_ERROR : {PyBool(FALSE), PyBool(TRUE)},
     API_RETRY_COUNT : {PyInt(2)}]

\* OpenFIGIApi(): no argument given
NoArgs ==
    [raise_on_error |-> None, api_key |-> None, api_url |-> None,
     api_retry_count |-> None]

\* OpenFIGIApi(...) with no argument or with one argument given
CtorArgs ==
    {NoArgs}
    \cup {[NoArgs EXCEPT !.raise_on_error = PyBool(b)] : b \in BOOLEAN}
    \cup {[NoArgs EXCEPT !.api_key = PyStr("arg-key")]}
    \cup {[NoArgs EXCEPT !.api_url = PyStr("http://localhost:8080")]}
    \cup {[NoArgs EXCEPT !.api_retry_count = PyInt(n)] : n \in {0, 5}}

\* the JSON objects the search endpoint holds, in its result order
Catalogue ==
    <<PyDict([k \in {"figi", "name"} |->
                 IF k = "figi" THEN PyStr("BBG000BLNNH6") ELSE PyStr("a")]),
      PyDict([k \in {"figi", "name", "ticker"} |->
                 CASE k = "figi" -> PyStr("BBG000B9XRY4")
                   [] k = "name" -> PyStr("b")
                   [] k = "ticker" -> PyStr("B")]),
      PyDict([k \in {"name", "exchCode"} |->
                 IF k = "name" THEN PyStr("c") ELSE PyStr("US")])>>

\* the `data` lists of a page: the slices of the catalogue of at most
\* MaxData items, the empty one included
DataLists ==
    {<<>>} \cup
    {SubSeq(Catalogue, ij[1], ij[2]) :
        ij \in {x \in (1..Len(Catalogue)) \X (1..Len(Catalogue)) :
                   x[1] <= x[2] /\ x[2] - x[1] < MaxData}}

Cursors == {PyStr("c1"), PyStr("c2")}

\* the JSON bodies the search endpoint answers with: `data` and `next` are
\* both optional
SearchBodies ==
    LET datas == {NoObject} \cup {PyList(q) : q \in DataLists}
        nexts == {NoObject} \cup Cursors
    IN {PyDict([k \in {x \in {"data"} : d # NoObject}
                         \cup {x \in {"next"} : n # NoObject}
                   |-> IF k = "data" THEN d ELSE n]) : d \in datas, n \in nexts}

\* the JSON bodies the mapping-values endpoint answers with
MappingBodies ==
    {PyDict([k \in {"values"} |-> PyList(q)]) :
        q \in {<<>>, <<PyStr("US"), PyStr("UK")>>}}

OtherOkStatuses == {301}
FailStatuses == {403, 404, 413, 429, 500}

\* the responses session.request can hand back: a success with one of the
\* endpoint's bodies, a redirect or a failure with an empty JSON object
Replies(bodies) ==
    {[status_code |-> 200, json |-> b] : b \in bodies}
    \cup {[status_code |-> st, json |-> EmptyDict] :
             st \in OtherOkStatuses \cup FailStatuses}

\* members of the MappingValues enum, by their .value
MappingValuesEnum == {PyStr("idType"), PyStr("exchCode")}

-----------------------------------------------------------------------------
(* Initial states *)

RangeIdle ==
    /\ data_range = None
    /\ range_call = "idle"
    /\ range_result = NoObject

FilterStart(inputs) ==
    /\ kwargs \in inputs
    /\ properties = NoObject
    /\ filter_result = NoObject

ClientStart(envs, args) ==
    /\ environ \in envs
    /\ ctor_args \in args
    /\ api = __init__(environ, ctor_args.raise_on_error, ctor_args.api_key,
                      ctor_args.api_url, ctor_args.api_retry_count)
    /\ op = "none"
    /\ pc = "idle"
    /\ request_data = NoObject
    /\ response = NoObject
    /\ part_index = 0
    /\ requests_log = <<>>
    /\ responses_log = <<>>
    /\ status_log = <<>>
    /\ yielded = <<>>
    /\ outcome = NoObject

-----------------------------------------------------------------------------
(* Actions: figipy/range.py *)

CallAssertDataRangeIsValid ==
    /\ range_call = "idle"
    /\ range_call' = "assert_data_range_is_valid"
    /\ range_result' = assert_data_range_is_valid(data_range)
    /\ UNCHANGED <<data_range, filter_vars, client_vars>>

CallConvertNumberRangeToString ==
    /\ range_call = "idle"
    /\ IsNumberRange(data_range)
    /\ range_call' = "convert_number_range_to_string"
    /\ range_result' = convert_number_range_to_string(data_range)
    /\ UNCHANGED <<data_range, filter_vars, client_vars>>

CallConvertDateRangeToString ==
    /\ range_call = "idle"
    /\ IsDateRange(data_range)
    /\ range_call' = "convert_date_range_to_string"
    /\ range_result' = convert_date_range_to_string(data_range)
    /\ UNCHANGED <<data_range, filter_vars, client_vars>>

-----------------------------------------------------------------------------
(* Actions: OpenFIGIProperties *)

\* OpenFIGIProperties(**kwargs): the generated __init__ stores the fields and
\* runs __post_init__; the object exists only if that does not raise
Construct ==
    /\ properties = NoObject
    /\ properties' = IF __post_init__(kwargs) = None
                     THEN [t |-> "OpenFIGIProperties", v |-> kwargs]
                     ELSE __post_init__(kwargs)
    /\ UNCHANGED <<kwargs, filter_result, range_vars, client_vars>>

CallAsFilter ==
    /\ properties.t = "OpenFIGIProperties"
    /\ filter_result = NoObject
    /\ filter_result' = as_filter(properties.v)
    /\ UNCHANGED <<kwargs, properties, range_vars, client_vars>>

-----------------------------------------------------------------------------
(* Actions: OpenFIGIApi *)

Queries == {PyStr("IBM")}

SearchUrl(self) == <<self.api_url, PyStr("/v2/search/")>>
MappingUrl(self, values) == <<self.api_url, PyStr("/v2/mapping/values/"), values>>

\* _perform_pagination_request resumes with the value `result` of a
\* _perform_request call: an exception ends the generator, a response with
\* data suspends it at the yield of the first part, any other ends it
Arrive(result) ==
    IF result.t = "raise"
    THEN /\ outcome' = result
         /\ pc' = "done"
         /\ UNCHANGED <<response, part_index, responses_log, yielded>>
    ELSE /\ response' = result
         /\ responses_log' = Append(responses_log, result)
         /\ IF HasData(result)
            THEN /\ yielded' = Append(yielded, from_figi_data(result.v["data"].v[1]))
                 /\ part_index' = 1
                 /\ pc' = "yielded"
                 /\ UNCHANGED outcome
            ELSE /\ pc' = "done"
                 /\ outcome' = Returned(None)
                 /\ UNCHANGED <<yielded, part_index>>

\* the first next() on search(query, properties): builds the request body,
\* creates the session and performs the first request (lines 227-233, 160-167)
SearchFirstPull ==
    /\ op = "none"
    /\ \E query \in Queries, use_properties \in BOOLEAN :
          /\ use_properties => properties.t = "OpenFIGIProperties"
          /\ LET props == IF use_properties THEN properties.v
                          ELSE OpenFIGIProperties
                 filter == as_filter(props)
                 data == DictWith(filter, "query", query)
             IN /\ op' = "search"
                /\ IF filter.t = "raise"
                   THEN /\ outcome' = filter
                        /\ pc' = "done"
                        /\ UNCHANGED <<request_data, response, part_index,
                                       requests_log, responses_log,
                                       status_log, yielded>>
                   ELSE /\ request_data' = data
                        /\ requests_log' =
                              Append(requests_log,
                                     RequestOf(api, SearchUrl(api), "POST", data))
                        /\ \E reply \in Replies(SearchBodies) :
                              /\ status_log' = Append(status_log, reply.status_code)
                              /\ Arrive(_perform_request(api, reply))
    /\ UNCHANGED <<environ, ctor_args, api, range_vars, filter_vars>>

\* next() while parts of the current page remain: the for loop yields the
\* next part (lines 168-169)
SearchYieldPart ==
    /\ op = "search"
    /\ pc = "yielded"
    /\ part_index < Len(response.v["data"].v)
    /\ yielded' = Append(yielded,
                         from_figi_data(response.v["data"].v[part_index + 1]))
    /\ part_index' = part_index + 1
    /\ UNCHANGED <<environ, ctor_args, api, op, pc, request_data, response,
                   requests_log, responses_log, status_log, outcome,
                   range_vars, filter_vars>>

\* next() after the last part of a page that has a cursor: performs the next
\* request with start=next merged into the body (lines 170-176, then 167)
SearchNextPage ==
    /\ op = "search"
    /\ pc = "yielded"
    /\ part_index = Len(response.v["data"].v)
    /\ DictHas(response, "next")
    /\ Len(requests_log) < MaxRequests
    /\ LET data == DictWith(request_data, "start", response.v["next"])
       IN /\ requests_log' =
                Append(requests_log, RequestOf(api, SearchUrl(api), "POST", data))
          /\ \E reply \in Replies(SearchBodies) :
                /\ status_log' = Append(status_log, reply.status_code)
                /\ Arrive(_perform_request(api, reply))
    /\ UNCHANGED <<environ, ctor_args, api, op, request_data,
                   range_vars, filter_vars>>

\* the loop leaving after the first page whether or not it has a cursor
SearchBreakIgnoringCursor ==
    /\ op = "search"
    /\ pc = "yielded"
    /\ part_index = Len(response.v["data"].v)
    /\ pc' = "done"
    /\ outcome' = Returned(None)
    /\ UNCHANGED <<environ, ctor_args, api, op, request_data, response,
                   part_index, requests_log, responses_log, status_log,
                   yielded, range_vars, filter_vars>>

\* next() after the last part of a page without a cursor: break (line 178)
SearchBreak ==
    /\ op = "search"
    /\ pc = "yielded"
    /\ part_index = Len(response.v["data"].v)
    /\ ~DictHas(response, "next")
    /\ pc' = "done"
    /\ outcome' = Returned(None)
    /\ UNCHANGED <<environ, ctor_args, api, op, request_data, response,
                   part_index, requests_log, responses_log, status_log,
                   yielded, range_vars, filter_vars>>

\* the consumer stops iterating: the suspended generator is closed
SearchClose ==
    /\ op = "search"
    /\ pc = "yielded"
    /\ pc' = "done"
    /\ outcome' = [t |-> "closed"]
    /\ UNCHANGED <<environ, ctor_args, api, op, request_data, response,
                   part_index, requests_log, responses_log, status_log,
                   yielded, range_vars, filter_vars>>

\* mapping_values(values), lines 242-246
MappingValues ==
    /\ op = "none"
    /\ op' = "mapping_values"
    /\ pc' = "done"
    /\ \E values \in MappingValuesEnum \cup {None} :
          IF values = None
          THEN /\ outcome' = Raised("ValueError")
               /\ UNCHANGED <<requests_log, status_log>>
          ELSE /\ requests_log' =
                     Append(requests_log,
                            RequestOf(api, MappingUrl(api, values), "GET", None))
               /\ \E reply \in Replies(MappingBodies) :
                     /\ status_log' = Append(status_log, reply.status_code)
                     /\ LET result == _perform_request(api, reply)
                        IN outcome' =
                              IF result.t = "raise" THEN result
                              ELSE IF DictHas(result, "values")
                                   THEN Returned(result.v["values"])
                                   ELSE Raised("KeyError")
    /\ UNCHANGED <<environ, ctor_args, api, request_data, response, part_index,
                   responses_log, yielded, range_vars, filter_vars>>

-----------------------------------------------------------------------------
(* Specifications *)

\* the range helpers of figipy/range.py applied to every input range
InitRange ==
    /\ data_range \in RangeInputs
    /\ range_call = "idle"
    /\ range_result = NoObject
    /\ FilterStart({OpenFIGIProperties})
    /\ ClientStart({DefaultEnviron}, {NoArgs})

NextRange ==
    \/ CallAssertDataRangeIsValid
    \/ CallConvertNumberRangeToString
    \/ CallConvertDateRangeToString

SpecRange == InitRange /\ [][NextRange]_vars

\* OpenFIGIProperties constructed from every bounded set of keyword arguments
InitFilter ==
    /\ RangeIdle
    /\ FilterStart(KwargsUpTo(MaxSupplied))
    /\ ClientStart({DefaultEnviron}, {NoArgs})

NextFilter ==
    \/ Construct
    \/ CallAsFilter

SpecFilter == InitFilter /\ [][NextFilter]_vars

\* the keyword arguments of the filters handed to search
ClientKwargs ==
    {[OpenFIGIProperties EXCEPT !["exchange_code"] = PyStr("NYSE")]}

\* an OpenFIGIApi client and one operation on it
InitClient ==
    /\ RangeIdle
    /\ FilterStart(ClientKwargs)
    /\ ClientStart(Environs, CtorArgs)

NextClient ==
    \/ Construct
    \/ SearchFirstPull
    \/ SearchYieldPart
    \/ SearchNextPage
    \/ SearchBreak
    \/ SearchClose
    \/ MappingValues

SpecClient == InitClient /\ [][NextClient]_vars

\* filters with one range property, with and without a security subtype
SearchKwargs ==
    LET d1 == PyDate(Ymd2Ord(2020, 11, 12))
        d2 == PyDate(Ymd2Ord(2020, 12, 11))
        ranges(lo, hi) ==
            {PyTuple(<<lo, hi>>), PyTuple(<<hi, lo>>), PyTuple(<<None, None>>)}
        subtypes == {None} \cup FieldValues("security_type_2")
    IN {[OpenFIGIProperties EXCEPT !["security_type_2"] = st, ![f] = r] :
           st \in subtypes, f \in {"expiration", "maturity"},
           r \in ranges(d1, d2) \cup {PyTuple(<<d1, None>>)}}
       \cup {[OpenFIGIProperties EXCEPT ![f] = r] :
                f \in {"strike", "contract_size", "coupon"},
                r \in ranges(PyInt(2), PyInt(3))}

\* searches with range filters, with raise-on-error off and on
InitSearch ==
    /\ RangeIdle
    /\ FilterStart(SearchKwargs)
    /\ ClientStart({e \in Environs : e.API_KEY = None}, {NoArgs})

SpecSearch == InitSearch /\ [][NextClient]_vars

-----------------------------------------------------------------------------
(* Properties *)

Last(q) == q[Len(q)]

RECURSIVE ConcatData(_)
\* the in-order concatenation of the `data` lists of a sequence of responses
ConcatData(log) ==
    IF log = <<>> THEN <<>>
    ELSE LET head == SubSeq(log, 1, Len(log) - 1)
             last == Last(log)
         IN ConcatData(head)
            \o (IF DictHas(last, "data") THEN last.v["data"].v ELSE <<>>)

\* the pages of the example: [{data: [a, b], next: c1}, {data: [c]}]
ExamplePages ==
    <<PyDict([k \in {"data", "next"} |->
                 IF k = "data" THEN PyList(SubSeq(Catalogue, 1, 2))
                 ELSE PyStr("c1")]),
      PyDict([k \in {"data"} |-> PyList(SubSeq(Catalogue, 3, 3))])>>

\* C1: when a search runs to its end, the objects produced are the in-order
\* concatenation of the data lists of the responses read, every response but
\* the last had data and a cursor, the last one has no data or no cursor, one
\* request was issued per response read, and each request after the first
\* carries the original body with start set to the previous response's cursor.
C1_PaginationConcatenatesPages ==
    (op = "search" /\ outcome = Returned(None) /\ requests_log # <<>>) =>
        /\ Len(requests_log) = Len(responses_log)
        /\ Len(yielded) = Len(ConcatData(responses_log))
        /\ \A i \in 1..Len(yielded) :
              yielded[i] = from_figi_data(ConcatData(responses_log)[i])
        /\ \A i \in 1..(Len(responses_log) - 1) :
              HasData(responses_log[i]) /\ DictHas(responses_log[i], "next")
        /\ ~HasData(Last(responses_log)) \/ ~DictHas(Last(responses_log), "next")
        /\ requests_log[1].data = request_data
        /\ \A i \in 2..Len(requests_log) :
              requests_log[i].data =
                 DictWith(request_data, "start", responses_log[i - 1].v["next"])
        /\ (responses_log = ExamplePages =>
              /\ Len(requests_log) = 2
              /\ <<yielded[1].name, yielded[2].name, yielded[3].name>>
                    = <<PyStr("a"), PyStr("b"), PyStr("c")>>
              /\ Len(yielded) = 3)

\* C1 witness: the example pages were read to the end with two requests
C1_Witness ==
    /\ op = "search"
    /\ outcome = Returned(None)
    /\ responses_log = ExamplePages
    /\ Len(requests_log) = 2
    /\ Len(yielded) = 3

IsFailure(status_code) == ~(200 <= status_code /\ status_code < 400)

\* C2: with raise-on-error disabled, an operation whose last response was a
\* failure ends without an exception and with an empty result.
C2_FailureDegradesToEmptyResult ==
    (/\ ~Truthy(api.raise_on_error)
     /\ pc = "done"
     /\ status_log # <<>>
     /\ IsFailure(Last(status_log))) =>
        /\ outcome.t # "raise"
        /\ op = "mapping_values" => outcome = Returned(PyList(<<>>))
        /\ (op = "search" /\ Len(status_log) = 1) =>
              (outcome = Returned(None) /\ yielded = <<>>)

ErrorKind(status_code) ==
    CASE status_code = 429 -> "RateLimitError"
      [] status_code = 413 -> "PayloadTooLargeError"
      [] status_code = 403 -> "AuthenticationError"
      [] OTHER -> "HTTPError"

\* C3: with raise-on-error enabled, every failure response ends the operation
\* with the error kind fixed by its status, and no body is returned for it.
C3_FailureRaisesByStatus ==
    Truthy(api.raise_on_error) =>
        \A i \in 1..Len(status_log) :
            IsFailure(status_log[i]) =>
                /\ i = Len(status_log)
                /\ outcome = Raised(ErrorKind(status_log[i]))
                /\ op = "search" => Len(responses_log) = i - 1

\* C3 witness: a 413 on the second page of a search raised PayloadTooLargeError
C3_Witness ==
    /\ Truthy(api.raise_on_error)
    /\ op = "search"
    /\ status_log = <<200, 413>>
    /\ outcome = Raised("PayloadTooLargeError")

Present(x) == x # None

\* C4: assert_data_range_is_valid fails exactly when both bounds are absent
\* or both are present with upper < lower.
C4_RangeValidity ==
    (range_call = "assert_data_range_is_valid" /\ data_range # None) =>
        LET lower == data_range.v[1]
            upper == data_range.v[2]
            invalid == \/ ~Present(lower) /\ ~Present(upper)
                       \/ Present(lower) /\ Present(upper) /\ upper.v < lower.v
        IN range_result = IF invalid THEN Raised("AssertionError") ELSE None

SubtypeRule(kw) ==
    /\ Present(kw.expiration) =>
          kw.security_type_2 \in {PyStr("Option"), PyStr("Warrant")}
    /\ Present(kw.maturity) => kw.security_type_2 = PyStr("Pool")

\* C5: a filter object exists only if expiration comes with subtype Option or
\* Warrant and maturity with subtype Pool; a construction that breaks either
\* rule ends in an AssertionError; every search request that carries
\* expiration carries subtype Option or Warrant, and every one that carries
\* maturity carries subtype Pool.
C5_SubtypeRule ==
    /\ properties.t = "OpenFIGIProperties" => SubtypeRule(kwargs)
    /\ (properties # NoObject /\ ~SubtypeRule(kwargs)) =>
          properties = Raised("AssertionError")
    /\ \A i \in 1..Len(requests_log) :
          LET body == requests_log[i].data
          IN body # None =>
                /\ DictHas(body, "expiration") =>
                      DictGet(body, "securityType2")
                         \in {PyStr("Option"), PyStr("Warrant")}
                /\ DictHas(body, "maturity") =>
                      DictGet(body, "securityType2") = PyStr("Pool")

\* C5 witness: a filter with expiration and subtype "Common Stock" was
\* rejected, and a search without it went out
C5_Witness ==
    /\ Present(kwargs.expiration)
    /\ kwargs.security_type_2 = PyStr("Common Stock")
    /\ properties = Raised("AssertionError")
    /\ requests_log # <<>>

RangeFields == {"strike", "contract_size", "coupon", "expiration", "maturity"}

RangeInvariant(r) ==
    /\ Present(r.v[1]) \/ Present(r.v[2])
    /\ (Present(r.v[1]) /\ Present(r.v[2])) => r.v[2].v >= r.v[1].v

\* C6: no filter with a range property that breaks the Range invariant is
\* built into a search request.
C6_NoInvalidRangeInRequest ==
    \A i \in 1..Len(requests_log) :
        (op = "search" /\ DOMAIN requests_log[i].data.v # {"query"}) =>
            \A f \in RangeFields :
                Present(kwargs[f]) => RangeInvariant(kwargs[f])

\* C7: a numeric range with at least one bound present renders as the list
\* [lower, upper] with present bounds unchanged and absent bounds null.
C7_NumberRangeRenderedUnchanged ==
    (/\ range_call = "convert_number_range_to_string"
     /\ data_range # None
     /\ Present(data_range.v[1]) \/ Present(data_range.v[2])) =>
        range_result = PyList(<<data_range.v[1], data_range.v[2]>>)

DigitValue(c) == CHOOSE n \in 0..9 : Digit(n) = c

\* the ordinal of the date a "YYYY-MM-DD" text names
ParseDate(text) ==
    LET c == text.v
    IN Ymd2Ord(DigitValue(c[1]) * 1000 + DigitValue(c[2]) * 100
                  + DigitValue(c[3]) * 10 + DigitValue(c[4]),
               DigitValue(c[6]) * 10 + DigitValue(c[7]),
               DigitValue(c[9]) * 10 + DigitValue(c[10]))

Chars(q) == PyStr(q)

\* C8: a date range with one bound d renders as the dates [d, d + 364 days]
\* (only start) or [d - 364 days, d] (only end); with both bounds present
\* they are rendered unchanged, so that a valid range keeps lower <= upper;
\* (2020-11-12, None) renders as ["2020-11-12", "2021-11-11"] and
\* (None, 2020-11-12) as ["2019-11-14", "2020-11-12"].
C8_DateRangeNormalized ==
    (/\ range_call = "convert_date_range_to_string"
     /\ data_range # None
     /\ Present(data_range.v[1]) \/ Present(data_range.v[2])) =>
        LET lower == data_range.v[1]
            upper == data_range.v[2]
            d == Ymd2Ord(2020, 11, 12)
        IN /\ range_result.t = "list"
           /\ Len(range_result.v) = 2
           /\ \A i \in 1..2 :
                 /\ range_result.v[i].t = "str"
                 /\ Len(range_result.v[i].v) = 10
                 /\ range_result.v[i].v[5] = "-"
                 /\ range_result.v[i].v[8] = "-"
           /\ LET first == ParseDate(range_result.v[1])
                  second == ParseDate(range_result.v[2])
              IN /\ Present(lower) => first = lower.v
                 /\ Present(upper) => second = upper.v
                 /\ ~Present(upper) => second = lower.v + 364
                 /\ ~Present(lower) => first = upper.v - 364
                 /\ (Present(lower) /\ Present(upper) /\ lower.v <= upper.v)
                       => first <= second
                 /\ ~(Present(lower) /\ Present(upper)) => first <= second
           /\ data_range = PyTuple(<<PyDate(d), None>>) =>
                 range_result =
                    PyList(<<Chars(<<"2", "0", "2", "0", "-", "1", "1", "-", "1", "2">>),
                             Chars(<<"2", "0", "2", "1", "-", "1", "1", "-", "1", "1">>)>>)
           /\ data_range = PyTuple(<<None, PyDate(d)>>) =>
                 range_result =
                    PyList(<<Chars(<<"2", "0", "1", "9", "-", "1", "1", "-", "1", "4">>),
                             Chars(<<"2", "0", "2", "0", "-", "1", "1", "-", "1", "2">>)>>)

\* C8 witness: a range with only the leap day 2020-02-29 as its end was
\* rendered, its start being 2019-03-02
C8_Witness ==
    /\ range_call = "convert_date_range_to_string"
    /\ data_range = PyTuple(<<None, PyDate(Ymd2Ord(2020, 2, 29))>>)
    /\ range_result.t = "list"
    /\ range_result.v[1] =
          Chars(<<"2", "0", "1", "9", "-", "0", "3", "-", "0", "2">>)

\* the wire key of each field of OpenFIGIProperties
WireKey(f) ==
    CASE f = "exchange_code" -> "exchCode"
      [] f = "mic_code" -> "micCode"
      [] f = "currency" -> "currency"
      [] f = "market_sector_description" -> "marketSecDes"
      [] f = "security_type" -> "securityType"
      [] f = "security_type_2" -> "securityType2"
      [] f = "include_unlisted_equities" -> "includeUnlistedEquities"
      [] f = "option_type" -> "optionType"
      [] f = "strike" -> "strike"
      [] f = "contract_size" -> "contractSize"
      [] f = "coupon" -> "coupon"
      [] f = "expiration" -> "expiration"
      [] f = "maturity" -> "maturity"
      [] f = "state_code" -> "stateCode"

\* C9: the keys of as_filter() are exactly the wire keys of the fields that
\* are not None; a supplied scalar appears with its value, a supplied range
\* as a two-element list; the empty filter gives the empty mapping.
C9_FilterKeysAreSuppliedFields ==
    filter_result # NoObject =>
        /\ filter_result.t = "dict"
        /\ DOMAIN filter_result.v = {WireKey(f) : f \in Supplied(kwargs)}
        /\ \A f \in Supplied(kwargs) :
              IF f \in RangeFields
              THEN /\ filter_result.v[WireKey(f)].t = "list"
                   /\ Len(filter_result.v[WireKey(f)].v) = 2
              ELSE filter_result.v[WireKey(f)] = kwargs[f]
        /\ kwargs = OpenFIGIProperties => filter_result = EmptyDict

\* C9 witness: a filter with include_unlisted_equities=False and a strike
\* range was rendered
C9_Witness ==
    /\ kwargs.include_unlisted_equities = PyBool(FALSE)
    /\ Present(kwargs.strike)
    /\ filter_result # NoObject
    /\ DOMAIN filter_result.v = {"includeUnlistedEquities", "strike"}

\* the class attribute that is the default of each setting
DefaultOf(setting) ==
    CASE setting = "raise_on_error" -> environ.API_RAISE_ON_ERROR
      [] setting = "api_retry_count" -> environ.API_RETRY_COUNT
      [] setting = "api_key" -> environ.API_KEY
      [] setting = "api_url" -> environ.API_URL

\* C10: each setting of a client is the constructor argument when one is
\* given and the environment-derived default when none is given.
C10_SettingsResolved ==
    \A setting \in DOMAIN ctor_args :
        api[setting] = IF Present(ctor_args[setting]) THEN ctor_args[setting]
                       ELSE DefaultOf(setting)

====
